---- MODULE Spec2Model ----
(***************************************************************************)
(* Room / session coordination core of the guess-the-song server: the     *)
(* socket.io event handlers of the backend entry point, the room registry *)
(* (rooms), the session tracker (playerRooms and the per-socket fields    *)
(* playerName / roomCode) and the messages each handler emits.            *)
(***************************************************************************)
EXTENDS Integers, Sequences, FiniteSets, TLC

(* ------------------------------ bounds --------------------------------- *)
MaxConns == 2
MaxAmount == 2
MaxPoints == 1
MaxRound == 2
MaxTime == 1

(* -------------------------- program constants -------------------------- *)
DefaultMaxPlayers == 8
DefaultTotalRounds == 5

(* ---------------------------- input domains ---------------------------- *)
Conns == 1..MaxConns
Codes == {"AB12"}
Names == {"Alice", "Bob", "Carol"}
\* the host name a create-room carries: with one room code no name occurs in a
\* room or a session when a room is created, so one name stands for all three
Hosts == {"Alice"}
\* settings.amountOfPlayers as sent by the client; 0 stands for a missing value
Amounts == 0..MaxAmount
RoundChoices == {10}
Avatars == {"none"}
Songs == {"X"}

NoName == "undefined"
NoCode == "undefined"
NoAvatar == "none"
NoTime == 0
NoSock == 0

VARIABLES
    rooms,        \* registry: code -> room record (DOMAIN rooms = live codes)
    playerRooms,  \* socket id -> room code
    sockName,     \* socket.playerName of every socket
    sockRoom,     \* socket.roomCode of every socket
    channels,     \* socket id -> set of socket.io channels the socket is in
    nextConn,     \* id the next connection gets
    closed,       \* ids of the sockets that have disconnected
    emitted,      \* messages sent by the handler that ran last
    threw,        \* the handler that ran last raised an exception
    lastEvent,    \* the client event the last handler ran for
    leaveRuns     \* history, per socket: 0 never joined; 1 joined; 2, 3: the leave
                  \* path has run once, more than once since the last join

vars == <<rooms, playerRooms, sockName, sockRoom, channels, nextConn, closed,
          emitted, threw, lastEvent, leaveRuns>>

(* ------------------------------ helpers -------------------------------- *)
Range(seq) == {seq[i] : i \in 1..Len(seq)}

\* Array.prototype.includes
Includes(seq, x) == \E i \in 1..Len(seq) : seq[i] = x

\* Array.prototype.indexOf, 1-based; 0 stands for -1
IndexOf(seq, x) ==
    IF Includes(seq, x)
    THEN CHOOSE i \in 1..Len(seq) : seq[i] = x /\ \A j \in 1..(i - 1) : seq[j] # x
    ELSE 0

\* Array.prototype.splice(index, 1)
SpliceOne(seq, i) == [j \in 1..(Len(seq) - 1) |-> IF j < i THEN seq[j] ELSE seq[j + 1]]

\* Map.prototype.delete / Map.prototype.set on a function with a finite domain
MapDelete(m, k) == [x \in (DOMAIN m) \ {k} |-> m[x]]
MapSet(m, k, v) == [x \in (DOMAIN m) \cup {k} |-> IF x = k THEN v ELSE m[x]]

EmptyMap == [x \in {} |-> 0]

Min(S) == CHOOSE x \in S : \A y \in S : x <= y

\* the sockets that are connected (io.sockets.sockets)
Connected == {s \in 1..(nextConn - 1) : s \notin closed}

\* the sockets a room-wide emit on channel code reaches, given the channel map
InChannel(ch, code) == {s \in Connected : code \in ch[s]}

Msg(name, to, data) == [name |-> name, to |-> to, data |-> data]

\* the client event a handler ran for, with the parts of it the handler reads
\* (sock is NoSock for a handler that never looks at its socket)
Event(name, s, code, playerName) ==
    [name |-> name, sock |-> s, code |-> code, playerName |-> playerName]

(* --------------------------- initializePlayerScore --------------------- *)
initializePlayerScore(playerName, avatar) ==
    [name |-> playerName, avatar |-> avatar, points |-> 0,
     previousPoints |-> 0, correctAnswers |-> 0]

\* room.playerScores is a Map, kept as the sequence of its values in insertion
\* order; the key of an entry is its name field
ScoreKeys(scores) == {scores[i].name : i \in 1..Len(scores)}

\* Map.prototype.has
ScoreHas(scores, playerName) == playerName \in ScoreKeys(scores)

ScoreIndex(scores, playerName) ==
    CHOOSE i \in 1..Len(scores) : scores[i].name = playerName

\* Map.prototype.delete
ScoreDelete(scores, playerName) ==
    IF ScoreHas(scores, playerName)
    THEN SpliceOne(scores, ScoreIndex(scores, playerName))
    ELSE scores

Init ==
    /\ rooms = EmptyMap
    /\ playerRooms = EmptyMap
    /\ sockName = [s \in Conns |-> NoName]
    /\ sockRoom = [s \in Conns |-> NoCode]
    /\ channels = [s \in Conns |-> {}]
    /\ nextConn = 1
    /\ closed = {}
    /\ emitted = <<>>
    /\ threw = FALSE
    /\ lastEvent = Event("none", NoSock, NoCode, NoName)
    /\ leaveRuns = [s \in Conns |-> 0]

(* ------------------------- io.on("connection") ------------------------- *)
Connect ==
    /\ nextConn <= MaxConns
    /\ nextConn' = nextConn + 1
    /\ emitted' = <<>>
    /\ threw' = FALSE
    /\ lastEvent' = Event("connection", nextConn, NoCode, NoName)
    /\ UNCHANGED <<rooms, playerRooms, sockName, sockRoom, channels, closed,
                   leaveRuns>>

(* ------------------------ socket.on("create-room") --------------------- *)
NewRoom(s, amount, rounds, host) ==
    [players |-> <<>>,
     playerScores |-> <<>>,
     maxPlayers |-> IF amount # 0 THEN amount ELSE DefaultMaxPlayers,
     settings |-> [amountOfPlayers |-> amount, rounds |-> rounds],
     host |-> host,
     hostSocketId |-> s,
     currentRound |-> 1,
     isRoundActive |-> FALSE,
     isIntermission |-> FALSE,
     roundStartTime |-> NoTime,
     finishedPlayers |-> {},
     gameActive |-> FALSE,
     currentRoundData |-> <<>>]

AutoJoin_None(room, amount, host, avatar) == room

\* single player mode: the host is added to the room at creation
AutoJoin(room, amount, host, avatar) ==
    IF amount = 1
    THEN [room EXCEPT !.players = Append(@, host),
                      !.playerScores = Append(@, initializePlayerScore(host, avatar))]
    ELSE room

CreateRoom_Overwrite(s, code, amount, rounds, host, avatar) ==
    /\ channels' = [channels EXCEPT ![s] = @ \cup {code}]
    /\ rooms' = MapSet(rooms, code,
                       AutoJoin(NewRoom(s, amount, rounds, host), amount, host, avatar))
    /\ emitted' = <<Msg("room-created", {s}, [code |-> code])>>
    /\ threw' = FALSE
    /\ lastEvent' = Event("create-room", s, code, host)
    /\ UNCHANGED <<playerRooms, sockName, sockRoom, nextConn, closed, leaveRuns>>

CreateRoom(s, code, amount, rounds, host, avatar) ==
    /\ channels' = [channels EXCEPT ![s] = @ \cup {code}]
    /\ IF code \notin DOMAIN rooms
       THEN /\ rooms' = MapSet(rooms, code,
                              AutoJoin(NewRoom(s, amount, rounds, host), amount, host, avatar))
            /\ emitted' = <<Msg("room-created", {s}, [code |-> code])>>
       ELSE /\ rooms' = rooms
            /\ emitted' = <<>>
    /\ threw' = FALSE
    /\ lastEvent' = Event("create-room", s, code, host)
    /\ UNCHANGED <<playerRooms, sockName, sockRoom, nextConn, closed, leaveRuns>>

(* --------------------------- socket.on("join") ------------------------- *)
RoomIsFull_OffByOne(room) == Len(room.players) > room.maxPlayers

\* room.players.length >= room.maxPlayers
RoomIsFull(room) == Len(room.players) >= room.maxPlayers

NameTaken_Never(room, playerName) == FALSE

\* room.players.includes(playerName)
NameTaken(room, playerName) == Includes(room.players, playerName)

\* the host's socket id is re-bound before the join is validated
RebindHost(room, s, playerName) ==
    IF room.host = playerName THEN [room EXCEPT !.hostSocketId = s] ELSE room

AddPlayer_NoPush(room, playerName, avatar) ==
    [room EXCEPT !.playerScores = IF ScoreHas(@, playerName) THEN @
                                  ELSE Append(@, initializePlayerScore(playerName, avatar))]

AddPlayer(room, playerName, avatar) ==
    [room EXCEPT !.players = Append(@, playerName),
                 !.playerScores = IF ScoreHas(@, playerName) THEN @
                                  ELSE Append(@, initializePlayerScore(playerName, avatar))]

\* room.currentRound || 1
RoundOr1(currentRound) == IF currentRound # 0 THEN currentRound ELSE 1

RosterData(room) ==
    [players |-> room.players, playerScores |-> room.playerScores,
     maxPlayers |-> room.maxPlayers, host |-> room.host]

JoinSuccessMsgs(s, ch, code, playerName, room) ==
    <<Msg("score-update", InChannel(ch, code), [scores |-> room.playerScores]),
      Msg("join-success", InChannel(ch, code),
          [roomCode |-> code, playerName |-> playerName, players |-> room.players,
           maxPlayers |-> room.maxPlayers,
           amountOfPlayersInRoom |-> room.settings.amountOfPlayers,
           playerScores |-> room.playerScores, host |-> room.host]),
      Msg("score-update", {s}, [scores |-> room.playerScores])>>
    \o (IF room.gameActive
        THEN <<Msg("join-active-game", {s},
                   [playerName |-> playerName, isHost |-> FALSE,
                    currentRound |-> RoundOr1(room.currentRound),
                    isRoundActive |-> room.isRoundActive,
                    isIntermission |-> room.isIntermission,
                    roundStartTime |-> room.roundStartTime,
                    players |-> room.players, playerScores |-> room.playerScores,
                    host |-> room.host, gameActive |-> room.gameActive,
                    currentRoundData |-> room.currentRoundData]),
               Msg("players-updated", InChannel(ch, code) \ {s}, RosterData(room))>>
        ELSE <<Msg("join-success", {s},
                   [players |-> room.players,
                    amountOfPlayersInRoom |-> room.maxPlayers,
                    host |-> room.host])>>)

Join(s, code, playerName, avatar) ==
    LET ch == [channels EXCEPT ![s] = @ \cup {code}] IN
    /\ channels' = ch
    /\ threw' = FALSE
    /\ lastEvent' = Event("join", s, code, playerName)
    /\ IF code \notin DOMAIN rooms
       THEN /\ emitted' = <<Msg("join-error", {s}, [reason |-> "no-room"])>>
            /\ UNCHANGED <<rooms, playerRooms, sockName, sockRoom, leaveRuns>>
       ELSE LET room == RebindHost(rooms[code], s, playerName) IN
            IF RoomIsFull(room)
            THEN /\ rooms' = [rooms EXCEPT ![code] = room]
                 /\ emitted' = <<Msg("join-error", {s}, [reason |-> "full"])>>
                 /\ UNCHANGED <<playerRooms, sockName, sockRoom, leaveRuns>>
            ELSE IF NameTaken(room, playerName)
            THEN /\ rooms' = [rooms EXCEPT ![code] = room]
                 /\ emitted' = <<Msg("join-error", {s}, [reason |-> "duplicate"])>>
                 /\ UNCHANGED <<playerRooms, sockName, sockRoom, leaveRuns>>
            ELSE LET joined == AddPlayer(room, playerName, avatar) IN
                 /\ sockName' = [sockName EXCEPT ![s] = playerName]
                 /\ sockRoom' = [sockRoom EXCEPT ![s] = code]
                 /\ playerRooms' = MapSet(playerRooms, s, code)
                 /\ rooms' = [rooms EXCEPT ![code] = joined]
                 /\ emitted' = JoinSuccessMsgs(s, ch, code, playerName, joined)
                 /\ leaveRuns' = [leaveRuns EXCEPT ![s] = 1]
    /\ UNCHANGED <<nextConn, closed>>

(* --------------------------- handlePlayerLeaving ----------------------- *)
\* socket.roomCode || playerRooms.get(socket.id)
LeavingRoomCode(s) ==
    IF sockRoom[s] # NoCode THEN sockRoom[s]
    ELSE IF s \in DOMAIN playerRooms THEN playerRooms[s]
    ELSE NoCode

\* the player is taken out of players, playerScores and finishedPlayers
RemovePlayer(room, playerName) ==
    [room EXCEPT !.players = SpliceOne(@, IndexOf(@, playerName)),
                 !.playerScores = ScoreDelete(@, playerName),
                 !.finishedPlayers = @ \ {playerName}]

ClearTracking_Keep(track, s) == track

\* playerRooms.delete(socket.id); delete socket.playerName; delete socket.roomCode
ClearTracking(track, s) ==
    [playerRooms |-> MapDelete(track.playerRooms, s),
     sockName |-> [track.sockName EXCEPT ![s] = NoName],
     sockRoom |-> [track.sockRoom EXCEPT ![s] = NoCode]]

RoomIsEmpty_Never(room) == FALSE

\* room.players.length === 0
RoomIsEmpty(room) == Len(room.players) = 0

NewHostName_Last(players) == players[Len(players)]

\* the first remaining player becomes the host
NewHostName(players) == players[1]

\* the connected sockets whose session is (roomCode, playerName), after the
\* leaving socket's own fields were deleted
SocketsOf(conn, names, codes, roomCode, playerName) ==
    {x \in conn : names[x] = playerName /\ codes[x] = roomCode}

TransferHost(room, conn, names, codes, roomCode) ==
    LET newHostName == NewHostName(room.players)
        found == SocketsOf(conn, names, codes, roomCode, newHostName)
    IN [room EXCEPT !.host = newHostName,
                    !.hostSocketId = IF found # {} THEN Min(found) ELSE @]

PlayersWithHost(room) ==
    [i \in 1..Len(room.playerScores) |->
        [name |-> room.playerScores[i].name,
         avatar |-> room.playerScores[i].avatar,
         points |-> room.playerScores[i].points,
         previousPoints |-> room.playerScores[i].previousPoints,
         correctAnswers |-> room.playerScores[i].correctAnswers,
         isHost |-> room.playerScores[i].name = room.host]]

HostChangedMsgs(room, wasHost, conn, names, codes, roomCode, to) ==
    IF wasHost
    THEN LET found == SocketsOf(conn, names, codes, roomCode, room.host) IN
         <<Msg("hostChanged", to,
               [newHost |-> room.host,
                newHostId |-> IF found # {} THEN Min(found) ELSE 0])>>
    ELSE <<>>

LeftMsgs(room, playerName, to) ==
    <<Msg("playerLeft", to,
          [playerName |-> playerName, remainingPlayers |-> room.players,
           newHost |-> room.host]),
      Msg("players-updated", to,
          [players |-> room.players, playerScores |-> PlayersWithHost(room),
           maxPlayers |-> room.maxPlayers, host |-> room.host])>>
    \o (IF Len(room.playerScores) > 0
        THEN <<Msg("score-update", to, [scores |-> PlayersWithHost(room)]),
               Msg("room-players-scores", to, [scores |-> PlayersWithHost(room)])>>
        ELSE <<>>)

\* conn: the sockets in io.sockets.sockets; ch: the channel map in force
WasHost_Always(room, playerName) == TRUE

\* room.host === playerName
WasHost(room, playerName) == room.host = playerName

handlePlayerLeaving(s, conn, ch) ==
    LET roomCode == LeavingRoomCode(s)
        playerName == sockName[s]
    IN
    IF \/ roomCode = NoCode
       \/ roomCode \notin DOMAIN rooms
       \/ IndexOf(rooms[roomCode].players, playerName) = 0
    THEN /\ emitted' = <<>>
         /\ UNCHANGED <<rooms, playerRooms, sockName, sockRoom>>
    ELSE LET wasHost == WasHost(rooms[roomCode], playerName)
             removed == RemovePlayer(rooms[roomCode], playerName)
             track == ClearTracking([playerRooms |-> playerRooms,
                                     sockName |-> sockName,
                                     sockRoom |-> sockRoom], s)
         IN
         /\ playerRooms' = track.playerRooms
         /\ sockName' = track.sockName
         /\ sockRoom' = track.sockRoom
         /\ IF RoomIsEmpty(removed)
            THEN /\ rooms' = MapDelete(rooms, roomCode)
                 /\ emitted' = <<>>
            ELSE LET room == IF wasHost /\ Len(removed.players) > 0
                             THEN TransferHost(removed, conn, track.sockName,
                                               track.sockRoom, roomCode)
                             ELSE removed
                 IN
                 /\ rooms' = [rooms EXCEPT ![roomCode] = room]
                 /\ emitted' =
                        HostChangedMsgs(room, wasHost, conn, track.sockName,
                                        track.sockRoom, roomCode,
                                        InChannel(ch, roomCode))
                        \o LeftMsgs(room, playerName, InChannel(ch, roomCode))

(* ------------------------- socket.on("leaveRoom") ---------------------- *)
LeaveRoom(s) ==
    /\ handlePlayerLeaving(s, Connected, channels)
    /\ threw' = FALSE
    /\ lastEvent' = Event("leaveRoom", s, LeavingRoomCode(s), sockName[s])
    /\ leaveRuns' = [leaveRuns EXCEPT ![s] = IF @ = 0 THEN 0 ELSE IF @ < 3 THEN @ + 1 ELSE 3]
    /\ UNCHANGED <<channels, nextConn, closed>>

(* ------------------------- socket.on("disconnect") --------------------- *)
\* the socket has left its channels and io.sockets.sockets when the handler runs
Disconnect(s) ==
    LET ch == [channels EXCEPT ![s] = {}] IN
    /\ handlePlayerLeaving(s, Connected \ {s}, ch)
    /\ channels' = ch
    /\ closed' = closed \cup {s}
    /\ threw' = FALSE
    /\ lastEvent' = Event("disconnect", s, LeavingRoomCode(s), sockName[s])
    /\ leaveRuns' = [leaveRuns EXCEPT ![s] = IF @ = 0 THEN 0 ELSE IF @ < 3 THEN @ + 1 ELSE 3]
    /\ UNCHANGED nextConn

(* ------------------- socket.on("get-room-players-scores") -------------- *)
GetRoomPlayersScores(s, code) ==
    LET ch == [channels EXCEPT ![s] = @ \cup {code}] IN
    /\ channels' = ch
    /\ emitted' = IF code \notin DOMAIN rooms
                  THEN <<Msg("room-players-scores", {s}, [scores |-> <<>>])>>
                  ELSE <<Msg("room-players-scores", InChannel(ch, code),
                             [scores |-> rooms[code].playerScores])>>
    /\ threw' = FALSE
    /\ lastEvent' = Event("get-room-players-scores", s, code, NoName)
    /\ UNCHANGED <<rooms, playerRooms, sockName, sockRoom, nextConn, closed,
                   leaveRuns>>

(* ----------------------- socket.on("get-total-rounds") ----------------- *)
GetTotalRounds_RoomWide(s, code) ==
    LET ch == [channels EXCEPT ![s] = @ \cup {code}] IN
    /\ channels' = ch
    /\ emitted' = IF code \notin DOMAIN rooms
                  THEN <<Msg("total-rounds", InChannel(ch, code),
                             [rounds |-> DefaultTotalRounds])>>
                  ELSE <<Msg("total-rounds", {s},
                             [rounds |-> rooms[code].settings.rounds])>>
    /\ threw' = FALSE
    /\ lastEvent' = Event("get-total-rounds", s, code, NoName)
    /\ UNCHANGED <<rooms, playerRooms, sockName, sockRoom, nextConn, closed,
                   leaveRuns>>

GetTotalRounds(s, code) ==
    /\ channels' = [channels EXCEPT ![s] = @ \cup {code}]
    /\ emitted' = IF code \notin DOMAIN rooms
                  THEN <<Msg("total-rounds", {s}, [rounds |-> DefaultTotalRounds])>>
                  ELSE <<Msg("total-rounds", {s},
                             [rounds |-> rooms[code].settings.rounds])>>
    /\ threw' = FALSE
    /\ lastEvent' = Event("get-total-rounds", s, code, NoName)
    /\ UNCHANGED <<rooms, playerRooms, sockName, sockRoom, nextConn, closed,
                   leaveRuns>>

(* -------------------------- socket.on("get-rooms") --------------------- *)
GetRooms(s, code) ==
    LET ch == [channels EXCEPT ![s] = @ \cup {code}] IN
    /\ channels' = ch
    /\ emitted' = <<Msg("rooms", InChannel(ch, code), [rooms |-> rooms])>>
    /\ threw' = FALSE
    /\ lastEvent' = Event("get-rooms", s, code, NoName)
    /\ UNCHANGED <<rooms, playerRooms, sockName, sockRoom, nextConn, closed,
                   leaveRuns>>

(* ------------------------- socket.on("update-score") ------------------- *)
\* the update-score event with the values it supplies
ScoreEvent(code, playerName, points, correctAnswers) ==
    [name |-> "update-score", sock |-> NoSock, code |-> code,
     playerName |-> playerName, points |-> points,
     correctAnswers |-> correctAnswers]

SetScore_Add(scores, playerName, points, correctAnswers) ==
    [i \in 1..Len(scores) |->
        IF scores[i].name = playerName
        THEN [scores[i] EXCEPT !.points = @ + points,
                               !.correctAnswers = @ + correctAnswers]
        ELSE scores[i]]

\* playerScore.points = points; playerScore.correctAnswers = correctAnswers
SetScore(scores, playerName, points, correctAnswers) ==
    [i \in 1..Len(scores) |->
        IF scores[i].name = playerName
        THEN [scores[i] EXCEPT !.points = points, !.correctAnswers = correctAnswers]
        ELSE scores[i]]

UpdateScore(s, code, playerName, points, correctAnswers) ==
    /\ IF code \in DOMAIN rooms /\ ScoreHas(rooms[code].playerScores, playerName)
       THEN LET scores == SetScore(rooms[code].playerScores, playerName, points,
                                   correctAnswers)
            IN /\ rooms' = [rooms EXCEPT ![code].playerScores = scores]
               /\ emitted' = <<Msg("score-update", InChannel(channels, code),
                                   [scores |-> scores])>>
       ELSE /\ rooms' = rooms
            /\ emitted' = <<>>
    /\ threw' = FALSE
    /\ lastEvent' = ScoreEvent(code, playerName, points, correctAnswers)
    /\ UNCHANGED <<playerRooms, sockName, sockRoom, channels, nextConn, closed,
                   leaveRuns>>

(* -------------------------- socket.on("start-game") -------------------- *)
StartedRoom_KeepActive(room) ==
    [room EXCEPT !.gameActive = TRUE, !.currentRound = 1,
                 !.isIntermission = TRUE, !.roundStartTime = NoTime]

StartedRoom(room) ==
    [room EXCEPT !.gameActive = TRUE, !.currentRound = 1, !.isRoundActive = FALSE,
                 !.isIntermission = TRUE, !.roundStartTime = NoTime]

StartGame(s, code) ==
    /\ IF code \in DOMAIN rooms
       THEN /\ rooms' = [rooms EXCEPT ![code] = StartedRoom(@)]
            /\ emitted' = <<Msg("game-started", InChannel(channels, code),
                                [settings |-> rooms[code].settings,
                                 host |-> rooms[code].host])>>
       ELSE /\ rooms' = rooms
            /\ emitted' = <<>>
    /\ threw' = FALSE
    /\ lastEvent' = Event("start-game", s, code, NoName)
    /\ UNCHANGED <<playerRooms, sockName, sockRoom, channels, nextConn, closed,
                   leaveRuns>>

(* ----------------------- socket.on("host-start-round") ----------------- *)
SnapshotPoints_Skip(scores) == scores

\* playerScore.previousPoints = playerScore.points, for every entry
SnapshotPoints(scores) ==
    [i \in 1..Len(scores) |-> [scores[i] EXCEPT !.previousPoints = scores[i].points]]

StampOr_Raw(startTime, now) == startTime

\* startTime || Date.now()
StampOr(startTime, now) == IF startTime # 0 THEN startTime ELSE now

RoundStarted(room, payload, startTime, now) ==
    [room EXCEPT !.playerScores = SnapshotPoints(@),
                 !.isRoundActive = TRUE,
                 !.isIntermission = FALSE,
                 !.roundStartTime = StampOr(startTime, now),
                 !.gameActive = TRUE,
                 !.currentRound = RoundOr1(@),
                 !.finishedPlayers = {},
                 !.currentRoundData = <<payload>>]

\* room.players.length - room.finishedPlayers.size
RemainingRaw(room) == Len(room.players) - Cardinality(room.finishedPlayers)

FinishedMsg_Swapped(to, remaining, finishedCount) ==
    Msg("player-finished-updated", to,
        [remaining |-> finishedCount, finishedCount |-> remaining])

FinishedMsg(to, remaining, finishedCount) ==
    Msg("player-finished-updated", to,
        [remaining |-> remaining, finishedCount |-> finishedCount])

HostStartRound(s, code, payload, startTime, now) ==
    /\ IF code \in DOMAIN rooms
       THEN LET room == RoundStarted(rooms[code], payload, startTime, now)
                to == InChannel(channels, code)
            IN /\ rooms' = [rooms EXCEPT ![code] = room]
               /\ emitted' =
                    <<Msg("round-start", to,
                          [song |-> payload.song, choices |-> payload.choices,
                           answer |-> payload.answer,
                           startTime |-> room.roundStartTime,
                           currentRound |-> room.currentRound,
                           settings |-> room.settings, players |-> room.players,
                           playerScores |-> room.playerScores, host |-> room.host,
                           isRoundActive |-> TRUE, isIntermission |-> FALSE,
                           gameActive |-> TRUE]),
                      FinishedMsg(to, RemainingRaw(room),
                                  Cardinality(room.finishedPlayers))>>
       ELSE /\ rooms' = rooms
            /\ emitted' = <<>>
    /\ threw' = FALSE
    /\ lastEvent' = Event("host-start-round", s, code, NoName)
    /\ UNCHANGED <<playerRooms, sockName, sockRoom, channels, nextConn, closed,
                   leaveRuns>>

(* --------------------- socket.on("player-finished-round") -------------- *)
MarkFinished_Overwrite(room, playerName) ==
    [room EXCEPT !.finishedPlayers = {playerName}]

\* room.finishedPlayers.add(playerName)
MarkFinished(room, playerName) ==
    [room EXCEPT !.finishedPlayers = @ \cup {playerName}]

\* Math.max(0, room.players.length - room.finishedPlayers.size)
Remaining(room) == IF RemainingRaw(room) > 0 THEN RemainingRaw(room) ELSE 0

PlayerFinishedRound(s, code, playerName) ==
    /\ IF code \in DOMAIN rooms
       THEN LET room == MarkFinished(rooms[code], playerName) IN
            /\ rooms' = [rooms EXCEPT ![code] = room]
            /\ emitted' = <<FinishedMsg(InChannel(channels, code), Remaining(room),
                                        Cardinality(room.finishedPlayers))>>
       ELSE /\ rooms' = rooms
            /\ emitted' = <<>>
    /\ threw' = FALSE
    /\ lastEvent' = Event("player-finished-round", NoSock, code, playerName)
    /\ UNCHANGED <<playerRooms, sockName, sockRoom, channels, nextConn, closed,
                   leaveRuns>>

(* ------------------------ socket.on("host-skip-round") ----------------- *)
MaySkip_Always(room, s, playerName) == TRUE

\* room.hostSocketId === socket.id || room.host === socket.playerName
MaySkip(room, s, playerName) == room.hostSocketId = s \/ room.host = playerName

HostSkipRound(s, code) ==
    /\ IF code \in DOMAIN rooms /\ MaySkip(rooms[code], s, sockName[s])
       THEN LET to == InChannel(channels, code) IN
            /\ rooms' = [rooms EXCEPT ![code].finishedPlayers = Range(rooms[code].players)]
            /\ emitted' = <<Msg("host-skipped-round", to, <<>>),
                            FinishedMsg(to, 0, Len(rooms[code].players))>>
       ELSE /\ rooms' = rooms
            /\ emitted' = <<>>
    /\ threw' = FALSE
    /\ lastEvent' = Event("host-skip-round", s, code, NoName)
    /\ UNCHANGED <<playerRooms, sockName, sockRoom, channels, nextConn, closed,
                   leaveRuns>>

(* ---------------------- socket.on("host-continue-round") --------------- *)
\* the host-continue-round event with the round number it supplies
ContinueEvent(s, code, nextRound) ==
    [name |-> "host-continue-round", sock |-> s, code |-> code,
     playerName |-> NoName, nextRound |-> nextRound]

Continued_Intermission(room, nextRound, now) ==
    [room EXCEPT !.currentRound = nextRound, !.isRoundActive = FALSE,
                 !.isIntermission = TRUE, !.roundStartTime = now,
                 !.finishedPlayers = {}]

Continued(room, nextRound, now) ==
    [room EXCEPT !.currentRound = nextRound, !.isRoundActive = TRUE,
                 !.isIntermission = FALSE, !.roundStartTime = now,
                 !.finishedPlayers = {}]

\* with no room, reading room.settings raises a TypeError before any emit
HostContinueRound(s, code, nextRound, now) ==
    /\ IF code \in DOMAIN rooms
       THEN LET room == Continued(rooms[code], nextRound, now) IN
            /\ rooms' = [rooms EXCEPT ![code] = room]
            /\ emitted' = <<Msg("continue-to-next-round", InChannel(channels, code),
                                [nextRound |-> nextRound, currentRound |-> nextRound,
                                 settings |-> room.settings, players |-> room.players,
                                 playerScores |-> room.playerScores,
                                 host |-> room.host, isRoundActive |-> TRUE,
                                 isIntermission |-> FALSE,
                                 roundStartTime |-> room.roundStartTime])>>
            /\ threw' = FALSE
       ELSE /\ rooms' = rooms
            /\ emitted' = <<>>
            /\ threw' = TRUE
    /\ lastEvent' = ContinueEvent(s, code, nextRound)
    /\ UNCHANGED <<playerRooms, sockName, sockRoom, channels, nextConn, closed,
                   leaveRuns>>

(* ------------------------- socket.on("host-end-game") ------------------ *)
HostEndGame_OthersOnly(s, code) ==
    /\ emitted' = <<Msg("navigate-to-end-game", InChannel(channels, code) \ {s}, <<>>)>>
    /\ threw' = FALSE
    /\ lastEvent' = Event("host-end-game", s, code, NoName)
    /\ UNCHANGED <<rooms, playerRooms, sockName, sockRoom, channels, nextConn,
                   closed, leaveRuns>>

\* socket.to(code).emit: the room without the sender; socket.emit: the sender
HostEndGame(s, code) ==
    /\ emitted' = <<Msg("navigate-to-end-game", InChannel(channels, code) \ {s}, <<>>),
                    Msg("navigate-to-end-game", {s}, <<>>)>>
    /\ threw' = FALSE
    /\ lastEvent' = Event("host-end-game", s, code, NoName)
    /\ UNCHANGED <<rooms, playerRooms, sockName, sockRoom, channels, nextConn,
                   closed, leaveRuns>>

(* ----------------------- socket.on("get-current-round") ---------------- *)
CurrentRoundPayload_Round1(room, now) ==
    [song |-> room.currentRoundData[1].song,
     choices |-> room.currentRoundData[1].choices,
     answer |-> room.currentRoundData[1].answer,
     currentRound |-> 1,
     startTime |-> StampOr(room.roundStartTime, now)]

\* { ...room.currentRoundData, currentRound: room.currentRound || 1,
\*   startTime: room.roundStartTime || Date.now() }
CurrentRoundPayload(room, now) ==
    [song |-> room.currentRoundData[1].song,
     choices |-> room.currentRoundData[1].choices,
     answer |-> room.currentRoundData[1].answer,
     currentRound |-> RoundOr1(room.currentRound),
     startTime |-> StampOr(room.roundStartTime, now)]

GetCurrentRound(s, code, now) ==
    /\ channels' = [channels EXCEPT ![s] = @ \cup {code}]
    /\ emitted' = IF code \notin DOMAIN rooms \/ rooms[code].currentRoundData = <<>>
                  THEN <<Msg("current-round", {s}, <<>>)>>
                  ELSE <<Msg("current-round", {s},
                             <<CurrentRoundPayload(rooms[code], now)>>)>>
    /\ threw' = FALSE
    /\ lastEvent' = Event("get-current-round", s, code, NoName)
    /\ UNCHANGED <<rooms, playerRooms, sockName, sockRoom, nextConn, closed,
                   leaveRuns>>

(* ------------------------------ the server ----------------------------- *)
Times == 1..MaxTime
Points == 0..MaxPoints
\* nextRound as sent by the client; 0 stands for 0 or a missing value
NextRounds == 0..MaxRound
Payloads == {[song |-> x, choices |-> x, answer |-> x] : x \in Songs}

\* the round payloads of the round machine: two songs, two answers
TwoSongs == {"X", "Y"}
RoundPayloads ==
    {[song |-> x, choices |-> <<"X", "Y">>, answer |-> y] : x, y \in TwoSongs}

\* settings.amountOfPlayers of any value a client can send: the values of
\* Amounts, a negative one and one above the largest room of the interface
AnyAmounts == Amounts \cup {-1, DefaultMaxPlayers + 1}

\* readings of Date.now() by two calls that follow one another
Clock == 1..(MaxTime + 1)

\* an uncaught exception in a handler ends the process
Running == threw = FALSE

Next ==
    /\ Running
    /\ \/ Connect
       \/ \E s \in Connected, code \in Codes, amount \in Amounts,
             rounds \in RoundChoices, host \in Hosts, avatar \in Avatars :
               CreateRoom(s, code, amount, rounds, host, avatar)
       \/ \E s \in Connected, code \in Codes, playerName \in Names, avatar \in Avatars :
               Join(s, code, playerName, avatar)
       \/ \E s \in Connected : LeaveRoom(s)
       \/ \E s \in Connected : Disconnect(s)
       \/ \E s \in Connected, code \in Codes : GetRoomPlayersScores(s, code)
       \/ \E s \in Connected, code \in Codes : GetTotalRounds(s, code)
       \/ \E s \in Connected, code \in Codes : GetRooms(s, code)
       \/ \E s \in Connected, code \in Codes, playerName \in Names,
             points \in Points, correctAnswers \in Points :
               UpdateScore(s, code, playerName, points, correctAnswers)
       \/ \E s \in Connected, code \in Codes : StartGame(s, code)
       \/ \E s \in Connected, code \in Codes, payload \in Payloads,
             startTime \in 0..MaxTime, now \in Times :
               HostStartRound(s, code, payload, startTime, now)
       \/ \E s \in Connected, code \in Codes, playerName \in Names :
               PlayerFinishedRound(s, code, playerName)
       \/ \E s \in Connected, code \in Codes : HostSkipRound(s, code)
       \/ \E s \in Connected, code \in Codes, nextRound \in NextRounds, now \in Times :
               HostContinueRound(s, code, nextRound, now)
       \/ \E s \in Connected, code \in Codes : HostEndGame(s, code)
       \/ \E s \in Connected, code \in Codes, now \in Times :
               GetCurrentRound(s, code, now)

Spec == Init /\ [][Next]_vars

(***************************************************************************)
(* The roster machine: the handlers that write players, playerScores'     *)
(* keys, host, hostSocketId, finishedPlayers or a session.  The handlers   *)
(* left out write none of these: the get-* queries and get-rooms only add  *)
(* channel subscriptions, update-score overwrites points / correctAnswers  *)
(* of an existing entry, start-game writes the round flags, host-end-game  *)
(* writes nothing and host-continue-round writes the round flags and       *)
(* empties finishedPlayers as host-start-round does.                       *)
(***************************************************************************)
NextRoster ==
    \/ Connect
    \/ \E s \in Connected, code \in Codes, amount \in Amounts,
          rounds \in RoundChoices, host \in Hosts, avatar \in Avatars :
            CreateRoom(s, code, amount, rounds, host, avatar)
    \/ \E s \in Connected, code \in Codes, playerName \in Names, avatar \in Avatars :
            Join(s, code, playerName, avatar)
    \/ \E s \in Connected : LeaveRoom(s)
    \/ \E s \in Connected : Disconnect(s)
    \/ \E s \in Connected, code \in Codes, payload \in Payloads,
          startTime \in 0..MaxTime, now \in Times :
            HostStartRound(s, code, payload, startTime, now)
    \/ \E s \in Connected, code \in Codes, playerName \in Names :
            PlayerFinishedRound(s, code, playerName)
    \/ \E s \in Connected, code \in Codes : HostSkipRound(s, code)

SpecRoster == Init /\ [][NextRoster]_vars

\* the names the score, round and query machines let players join under
FewNames == {"Alice", "Bob"}

(***************************************************************************)
(* The score machine: the handlers that write a score record (join and     *)
(* leave add and delete records, update-score writes points and            *)
(* correctAnswers, host-start-round writes previousPoints).                *)
(***************************************************************************)
NextScore ==
    \/ Connect
    \/ \E s \in Connected, code \in Codes, amount \in Amounts,
          rounds \in RoundChoices, host \in Hosts, avatar \in Avatars :
            CreateRoom(s, code, amount, rounds, host, avatar)
    \/ \E s \in Connected, code \in Codes, playerName \in FewNames, avatar \in Avatars :
            Join(s, code, playerName, avatar)
    \/ \E s \in Connected : LeaveRoom(s)
    \/ \E s \in Connected, code \in Codes, playerName \in FewNames,
          points \in Points, correctAnswers \in Points :
            UpdateScore(s, code, playerName, points, correctAnswers)
    \/ \E s \in Connected, code \in Codes, payload \in Payloads,
          startTime \in 0..MaxTime, now \in Times :
            HostStartRound(s, code, payload, startTime, now)

SpecScore == Init /\ [][NextScore]_vars

(***************************************************************************)
(* The round machine: the handlers that write or read the round state      *)
(* (gameActive, currentRound, isRoundActive, isIntermission,               *)
(* roundStartTime, currentRoundData), with join, which reads it, and the   *)
(* explicit leave, which may end the room.                                 *)
(***************************************************************************)
NextRound ==
    \/ Running /\ Connect
    \/ /\ Running
       /\ \E s \in Connected, code \in Codes, amount \in Amounts,
             rounds \in RoundChoices, host \in Hosts, avatar \in Avatars :
               CreateRoom(s, code, amount, rounds, host, avatar)
    \/ /\ Running
       /\ \E s \in Connected, code \in Codes, playerName \in FewNames,
             avatar \in Avatars :
               Join(s, code, playerName, avatar)
    \/ Running /\ \E s \in Connected : LeaveRoom(s)
    \/ Running /\ \E s \in Connected, code \in Codes : StartGame(s, code)
    \/ /\ Running
       /\ \E s \in Connected, code \in Codes, payload \in RoundPayloads,
             startTime \in 0..MaxTime, now \in Times :
               HostStartRound(s, code, payload, startTime, now)
    \/ /\ Running
       /\ \E s \in Connected, code \in Codes, nextRound \in NextRounds,
             now \in Times :
               HostContinueRound(s, code, nextRound, now)
    \/ Running /\ \E s \in Connected, code \in Codes : HostEndGame(s, code)
    \/ /\ Running
       /\ \E s \in Connected, code \in Codes, now \in Times :
               GetCurrentRound(s, code, now)

SpecRound == Init /\ [][NextRound]_vars

(***************************************************************************)
(* The query machine: the read-only queries, with the handlers that make   *)
(* a room exist, hold players, hold a round payload, lose its round start  *)
(* time (start-game) and cease to exist.                                   *)
(***************************************************************************)
NextQuery ==
    \/ Connect
    \/ \E s \in Connected, code \in Codes, amount \in Amounts,
          rounds \in RoundChoices, host \in Hosts, avatar \in Avatars :
            CreateRoom(s, code, amount, rounds, host, avatar)
    \/ \E s \in Connected, code \in Codes, playerName \in FewNames, avatar \in Avatars :
            Join(s, code, playerName, avatar)
    \/ \E s \in Connected : LeaveRoom(s)
    \/ \E s \in Connected, code \in Codes, payload \in Payloads,
          startTime \in 0..MaxTime, now \in Times :
            HostStartRound(s, code, payload, startTime, now)
    \/ \E s \in Connected, code \in Codes : GetRoomPlayersScores(s, code)
    \/ \E s \in Connected, code \in Codes : GetTotalRounds(s, code)
    \/ \E s \in Connected, code \in Codes : GetRooms(s, code)
    \/ \E s \in Connected, code \in Codes, now \in Clock :
            GetCurrentRound(s, code, now)
    \/ \E s \in Connected, code \in Codes : StartGame(s, code)

SpecQuery == Init /\ [][NextQuery]_vars

(***************************************************************************)
(* The game machine: one game played through, from the creation of the     *)
(* room to the continuation to a further round.                            *)
(***************************************************************************)
NextGame ==
    \/ Running /\ Connect
    \/ /\ Running
       /\ \E s \in Connected, code \in Codes, amount \in Amounts,
             rounds \in RoundChoices, host \in Hosts, avatar \in Avatars :
               CreateRoom(s, code, amount, rounds, host, avatar)
    \/ /\ Running
       /\ \E s \in Connected, code \in Codes, playerName \in FewNames,
             avatar \in Avatars :
               Join(s, code, playerName, avatar)
    \/ Running /\ \E s \in Connected, code \in Codes : StartGame(s, code)
    \/ /\ Running
       /\ \E s \in Connected, code \in Codes, payload \in Payloads,
             startTime \in 0..MaxTime, now \in Times :
               HostStartRound(s, code, payload, startTime, now)
    \/ /\ Running
       /\ \E s \in Connected, code \in Codes, playerName \in FewNames :
               PlayerFinishedRound(s, code, playerName)
    \/ /\ Running
       /\ \E s \in Connected, code \in Codes, nextRound \in NextRounds,
             now \in Times :
               HostContinueRound(s, code, nextRound, now)

SpecGame == Init /\ [][NextGame]_vars

(***************************************************************************)
(* The creation machine: create-room with any amountOfPlayers, and the     *)
(* joins and leaves that fill and empty the rooms it makes.                *)
(***************************************************************************)
NextCreate ==
    \/ Connect
    \/ \E s \in Connected, code \in Codes, amount \in AnyAmounts,
          rounds \in RoundChoices, host \in Hosts, avatar \in Avatars :
            CreateRoom(s, code, amount, rounds, host, avatar)
    \/ \E s \in Connected, code \in Codes, playerName \in FewNames, avatar \in Avatars :
            Join(s, code, playerName, avatar)
    \/ \E s \in Connected : LeaveRoom(s)

SpecCreate == Init /\ [][NextCreate]_vars

(***************************************************************************)
(* The ledger machine: the handlers that add, delete or write a score      *)
(* record, with both ways of leaving.                                      *)
(***************************************************************************)
NextLedger ==
    \/ Connect
    \/ \E s \in Connected, code \in Codes, amount \in Amounts,
          rounds \in RoundChoices, host \in Hosts, avatar \in Avatars :
            CreateRoom(s, code, amount, rounds, host, avatar)
    \/ \E s \in Connected, code \in Codes, playerName \in FewNames, avatar \in Avatars :
            Join(s, code, playerName, avatar)
    \/ \E s \in Connected : LeaveRoom(s)
    \/ \E s \in Connected : Disconnect(s)
    \/ \E s \in Connected, code \in Codes, playerName \in FewNames,
          points \in Points, correctAnswers \in Points :
            UpdateScore(s, code, playerName, points, correctAnswers)

SpecLedger == Init /\ [][NextLedger]_vars

(***************************************************************************)
(* The host's way in: the first connection creates rooms for several       *)
(* players and then joins under the host name it created them with; the    *)
(* other connections join, leave and disconnect in between.  The machine   *)
(* ends with the creator's first join.                                     *)
(***************************************************************************)
Creator == 1

\* settings.amountOfPlayers of a room for several players
MultiAmounts == Amounts \ {1}

CreatorJoined == lastEvent.name = "join" /\ lastEvent.sock = Creator

NextHostJoin ==
    \/ ~CreatorJoined /\ Connect
    \/ /\ ~CreatorJoined
       /\ Creator \in Connected
       /\ \E code \in Codes \ DOMAIN rooms, amount \in MultiAmounts,
             rounds \in RoundChoices, host \in Hosts, avatar \in Avatars :
               CreateRoom(Creator, code, amount, rounds, host, avatar)
    \/ /\ ~CreatorJoined
       /\ \E s \in Connected \ {Creator}, code \in Codes, playerName \in Names,
             avatar \in Avatars :
               Join(s, code, playerName, avatar)
    \/ ~CreatorJoined /\ \E s \in Connected \ {Creator} : LeaveRoom(s)
    \/ ~CreatorJoined /\ \E s \in Connected \ {Creator} : Disconnect(s)
    \/ /\ ~CreatorJoined
       /\ Creator \in Connected
       /\ \E code \in DOMAIN rooms, host \in Hosts, avatar \in Avatars :
               Join(Creator, code, host, avatar)

SpecHostJoin == Init /\ [][NextHostJoin]_vars

TypeOK ==
    /\ DOMAIN rooms \subseteq Codes
    /\ DOMAIN playerRooms \subseteq Conns
    /\ nextConn \in 1..(MaxConns + 1)
    /\ \A s \in Conns : leaveRuns[s] \in 0..3

\* a session names a live room and a player of it, and no two sockets share one
SessionsSound ==
    \A s \in Conns :
        /\ (sockRoom[s] = NoCode) = (sockName[s] = NoName)
        /\ (s \in DOMAIN playerRooms) = (sockRoom[s] # NoCode)
        /\ sockRoom[s] # NoCode =>
              /\ playerRooms[s] = sockRoom[s]
              /\ sockRoom[s] \in DOMAIN rooms
              /\ Includes(rooms[sockRoom[s]].players, sockName[s])
              /\ \A x \in Conns \ {s} :
                    ~(sockRoom[x] = sockRoom[s] /\ sockName[x] = sockName[s])

(* ------------------------------ the claims ----------------------------- *)
IsLeaveEvent(e) == e.name \in {"leaveRoom", "disconnect"}

JoinError(s, reason) == <<Msg("join-error", {s}, [reason |-> reason])>>

IsJoinError(msgs, s) ==
    Len(msgs) = 1 /\ msgs[1].name = "join-error" /\ msgs[1].to = {s}

JoinAccepted(msgs) == \E i \in 1..Len(msgs) : msgs[i].name = "join-success"

NoDuplicates(seq) == \A i, j \in 1..Len(seq) : i # j => seq[i] # seq[j]

\* the sockets subscribed to the channel of code after the step
Subscribers(code) == {x \in Conns : code \in channels'[x]}

SessionsUnchanged ==
    playerRooms' = playerRooms /\ sockName' = sockName /\ sockRoom' = sockRoom

C2_NamesUnique ==
    [][/\ \A c \in DOMAIN rooms' : NoDuplicates(rooms'[c].players)
       /\ \A c \in DOMAIN rooms :
            (/\ lastEvent'.name = "join"
             /\ lastEvent'.code = c
             /\ lastEvent'.playerName \in Range(rooms[c].players))
            => /\ IsJoinError(emitted', lastEvent'.sock)
               /\ c \in DOMAIN rooms'
               /\ rooms'[c].players = rooms[c].players]_vars

\* a join under a name of the room was just refused as a duplicate
C2_Witness ==
    /\ lastEvent.name = "join"
    /\ lastEvent.code \in DOMAIN rooms
    /\ emitted = JoinError(lastEvent.sock, "duplicate")
    /\ Includes(rooms[lastEvent.code].players, lastEvent.playerName)

\* two joins for the same room under the same name, from two connections,
\* handled one right after the other, the first of them accepted
TwoJoinsSameName ==
    /\ lastEvent.name = "join"
    /\ JoinAccepted(emitted)
    /\ lastEvent'.name = "join"
    /\ lastEvent'.code = lastEvent.code
    /\ lastEvent'.playerName = lastEvent.playerName
    /\ lastEvent'.sock # lastEvent.sock

\* C3 as stated: of two joins under one new name exactly one succeeds and the
\* other is answered with the duplicate-name join-error.
C3_SecondGetsDuplicateError ==
    [][TwoJoinsSameName =>
         /\ emitted' = JoinError(lastEvent'.sock, "duplicate")
         /\ rooms'[lastEvent.code].players = rooms[lastEvent.code].players]_vars

\* C3 amended: of two joins under one new name exactly one succeeds; the other
\* is answered with a join-error and adds no player and no session: the
\* room-full error when the first join filled the room, the duplicate-name
\* error otherwise.
C3_ExactlyOneJoinSucceeds ==
    [][TwoJoinsSameName =>
         /\ emitted' =
              JoinError(lastEvent'.sock,
                        IF Len(rooms[lastEvent.code].players)
                             >= rooms[lastEvent.code].maxPlayers
                        THEN "full" ELSE "duplicate")
         /\ rooms'[lastEvent.code].players = rooms[lastEvent.code].players
         /\ rooms'[lastEvent.code].playerScores = rooms[lastEvent.code].playerScores
         /\ SessionsUnchanged]_vars

\* a join was just refused as room-full under the name another connection
\* joined with last
C3_Witness ==
    /\ lastEvent.name = "join"
    /\ lastEvent.code \in DOMAIN rooms
    /\ emitted = JoinError(lastEvent.sock, "full")
    /\ LET room == rooms[lastEvent.code] IN
       /\ Len(room.players) >= 2
       /\ room.players[Len(room.players)] = lastEvent.playerName
       /\ \E x \in Conns \ {lastEvent.sock} :
            sockName[x] = lastEvent.playerName /\ sockRoom[x] = lastEvent.code

\* C4: a join refused as room-full or as a duplicate name changes no field of
\* any room and no session.
C4_RejectedJoinChangesNothing ==
    [][(/\ lastEvent'.name = "join"
        /\ \/ emitted' = JoinError(lastEvent'.sock, "full")
           \/ emitted' = JoinError(lastEvent'.sock, "duplicate"))
       => rooms' = rooms /\ SessionsUnchanged]_vars

\* C5: in every room with at least one player the host is one of the players.
C5_HostIsPlayer ==
    \A c \in DOMAIN rooms :
        rooms[c].players # <<>> => rooms[c].host \in Range(rooms[c].players)

\* C6 as stated: every room in the registry has at least one player.
C6_NoEmptyRoom == \A c \in DOMAIN rooms : Len(rooms[c].players) >= 1

\* C6 amended: no room stays in the registry once its players have become
\* empty: a room found in the registry with no player is a room just created
\* or one that had no player before the step either.
C6_NoRoomOutlivesItsPlayers ==
    [][\A c \in DOMAIN rooms' :
         rooms'[c].players = <<>> =>
            \/ c \notin DOMAIN rooms
            \/ rooms[c].players = <<>>]_vars

\* a disconnect just removed the last player of a room, and the room with it
C6_Witness ==
    /\ lastEvent.name = "disconnect"
    /\ lastEvent.code # NoCode
    /\ lastEvent.playerName # NoName
    /\ lastEvent.code \notin DOMAIN rooms

\* C7: a leave that removes the last player of a room removes the room from the
\* registry in that step and emits nothing.
C7_LastLeaveDeletesSilently ==
    [][\A c \in DOMAIN rooms :
         (/\ IsLeaveEvent(lastEvent')
          /\ lastEvent'.code = c
          /\ rooms[c].players = <<lastEvent'.playerName>>)
         => c \notin DOMAIN rooms' /\ emitted' = <<>>]_vars

\* an explicit leave just removed the last player of a room that others could
\* still hear
C7_Witness ==
    /\ lastEvent.name = "leaveRoom"
    /\ lastEvent.code # NoCode
    /\ lastEvent.playerName # NoName
    /\ lastEvent.code \notin DOMAIN rooms
    /\ emitted = <<>>
    /\ \E x \in Connected \ {lastEvent.sock} : lastEvent.code \in channels[x]

\* C8: after every step finishedPlayers is a subset of the names in players,
\* and a player who leaves is in neither collection afterwards.
C8_FinishedSubsetOfPlayers ==
    [][/\ \A c \in DOMAIN rooms' :
            rooms'[c].finishedPlayers \subseteq Range(rooms'[c].players)
       /\ \A c \in DOMAIN rooms' :
            (/\ IsLeaveEvent(lastEvent')
             /\ lastEvent'.code = c
             /\ c \in DOMAIN rooms
             /\ Includes(rooms[c].players, lastEvent'.playerName))
            => /\ ~Includes(rooms'[c].players, lastEvent'.playerName)
               /\ lastEvent'.playerName \notin rooms'[c].finishedPlayers]_vars

\* the player joined first among those who stay when playerName goes
FirstRemaining(players, playerName) ==
    players[Min({i \in 1..Len(players) : players[i] # playerName})]

HostChangedAt(msgs) == {i \in 1..Len(msgs) : msgs[i].name = "hostChanged"}

\* C9: when the host leaves a room where others stay, the earliest-joined
\* remaining player becomes the host and exactly one hostChanged goes to the
\* room, with that player as newHost.
C9_HostSuccession ==
    [][\A c \in DOMAIN rooms :
         (/\ IsLeaveEvent(lastEvent')
          /\ lastEvent'.code = c
          /\ lastEvent'.playerName = rooms[c].host
          /\ Includes(rooms[c].players, rooms[c].host)
          /\ Len(rooms[c].players) >= 2)
         => LET heir == FirstRemaining(rooms[c].players, rooms[c].host) IN
            /\ c \in DOMAIN rooms'
            /\ rooms'[c].host = heir
            /\ rooms'[c].players[1] = heir
            /\ Cardinality(HostChangedAt(emitted')) = 1
            /\ \A i \in HostChangedAt(emitted') :
                 /\ emitted'[i].data.newHost = heir
                 /\ emitted'[i].to = Subscribers(c)]_vars

\* the host just left a room where two players stay, and the room was told
C9_Witness ==
    /\ IsLeaveEvent(lastEvent)
    /\ lastEvent.code \in DOMAIN rooms
    /\ Len(rooms[lastEvent.code].players) >= 2
    /\ \E i \in 1..Len(emitted) :
         /\ emitted[i].name = "hostChanged"
         /\ emitted[i].data.newHost = rooms[lastEvent.code].players[1]
         /\ emitted[i].to # {}

\* C10: a run of the leave path for a connection whose leave path has already
\* run since its last join changes no room and no session and emits nothing.
C10_LeaveIdempotent ==
    [][(/\ IsLeaveEvent(lastEvent')
        /\ leaveRuns[lastEvent'.sock] >= 2)
       => rooms' = rooms /\ SessionsUnchanged /\ emitted' = <<>>]_vars

\* a connection that joined and left explicitly has just disconnected, in a
\* room that is still live
C10_Witness ==
    /\ lastEvent.name = "disconnect"
    /\ leaveRuns[lastEvent.sock] = 3
    /\ rooms # EmptyMap

\* the score record of playerName in a room
ScoreOf(room, playerName) ==
    room.playerScores[ScoreIndex(room.playerScores, playerName)]

\* C11: a host-start-round on an existing room leaves every player of the room
\* with previousPoints equal to the points the player had before the call and
\* with points as they were.
C11_SnapshotAtRoundStart ==
    [][\A c \in DOMAIN rooms :
         (lastEvent'.name = "host-start-round" /\ lastEvent'.code = c)
         => /\ c \in DOMAIN rooms'
            /\ rooms'[c].players = rooms[c].players
            /\ \A p \in Range(rooms[c].players) :
                 /\ ScoreHas(rooms[c].playerScores, p)
                 /\ ScoreHas(rooms'[c].playerScores, p)
                 /\ ScoreOf(rooms'[c], p).previousPoints = ScoreOf(rooms[c], p).points
                 /\ ScoreOf(rooms'[c], p).points = ScoreOf(rooms[c], p).points]_vars

\* a round was just started in a room of two players, one with points scored
\* before the round and one with none
C11_Witness ==
    /\ lastEvent.name = "host-start-round"
    /\ lastEvent.code \in DOMAIN rooms
    /\ LET room == rooms[lastEvent.code] IN
       /\ Len(room.players) = 2
       /\ \E p, q \in Range(room.players) :
            /\ ScoreOf(room, p).points > 0
            /\ ScoreOf(room, p).previousPoints = ScoreOf(room, p).points
            /\ ScoreOf(room, q).points = 0

\* song, choices and answer of an answer are those of the stored payload
SamePayload(data, stored) ==
    data.song = stored.song /\ data.choices = stored.choices
        /\ data.answer = stored.answer

\* currentRoundData is written by host-start-round alone, with the payload the
\* round-start broadcast carries, and a get-current-round for a room that holds
\* a payload answers the requester alone with that payload and the round number
\* shown(room)
RoundRecovery(shown(_)) ==
    /\ \A c \in DOMAIN rooms' :
         IF c \notin DOMAIN rooms
         THEN rooms'[c].currentRoundData = <<>>
         ELSE IF lastEvent'.name = "host-start-round" /\ lastEvent'.code = c
         THEN /\ Len(rooms'[c].currentRoundData) = 1
              /\ emitted'[1].name = "round-start"
              /\ SamePayload(emitted'[1].data, rooms'[c].currentRoundData[1])
         ELSE rooms'[c].currentRoundData = rooms[c].currentRoundData
    /\ \A c \in DOMAIN rooms :
         (/\ lastEvent'.name = "get-current-round"
          /\ lastEvent'.code = c
          /\ rooms[c].currentRoundData # <<>>)
         => /\ Len(emitted') = 1
            /\ emitted'[1].name = "current-round"
            /\ emitted'[1].to = {lastEvent'.sock}
            /\ Len(emitted'[1].data) = 1
            /\ SamePayload(emitted'[1].data[1], rooms[c].currentRoundData[1])
            /\ emitted'[1].data[1].currentRound = shown(rooms[c])

AuthoritativeRound(room) == room.currentRound

ShownRound(room) == IF room.currentRound = 0 THEN 1 ELSE room.currentRound

HostOnlyEvents ==
    {"start-game", "host-start-round", "host-continue-round", "host-end-game"}

\* C13: a start-game, host-start-round, host-continue-round or host-end-game
\* from a connection that is neither the room's host connection nor in session
\* under the host's name changes no room and emits nothing.
C13_NonHostIgnored ==
    [][\A c \in DOMAIN rooms :
         (/\ lastEvent'.name \in HostOnlyEvents
          /\ lastEvent'.code = c
          /\ ~MaySkip(rooms[c], lastEvent'.sock, sockName[lastEvent'.sock]))
         => rooms' = rooms /\ emitted' = <<>>]_vars

UnknownRoomEvents ==
    {"join", "get-room-players-scores", "get-total-rounds", "update-score",
     "start-game", "host-start-round", "player-finished-round",
     "host-skip-round", "host-continue-round", "get-current-round"}

\* C14: a client event that names a room code absent from the registry raises
\* no exception, leaves the registry as it was and sends nothing to a
\* connection other than the sender.
C14_UnknownRoomHarmless ==
    [][(/\ lastEvent'.name \in UnknownRoomEvents
        /\ lastEvent'.code \notin DOMAIN rooms)
       => /\ threw' = FALSE
          /\ rooms' = rooms
          /\ \A i \in 1..Len(emitted') : emitted'[i].to \subseteq {lastEvent'.sock}]_vars

\* C15: a room's currentRound is at least 1 and never decreases from one state
\* to the next while the room exists.
C15_RoundMonotone ==
    [][\A c \in DOMAIN rooms' :
         /\ rooms'[c].currentRound >= 1
         /\ c \in DOMAIN rooms => rooms'[c].currentRound >= rooms[c].currentRound]_vars

\* C16: an update-score for a player of the room overwrites that player's
\* points and correctAnswers with the supplied values, leaves previousPoints,
\* every other record and every other field of the room as they were and sends
\* the room all the score records; for a name that is not a player of the room
\* it changes nothing and sends nothing.
C16_ScoreOverwrite ==
    [][\A c \in DOMAIN rooms :
         (lastEvent'.name = "update-score" /\ lastEvent'.code = c)
         => LET p == lastEvent'.playerName
                old == rooms[c].playerScores
            IN
            IF Includes(rooms[c].players, p)
            THEN /\ c \in DOMAIN rooms'
                 /\ ScoreHas(old, p)
                 /\ rooms'[c] = [rooms[c] EXCEPT !.playerScores = rooms'[c].playerScores]
                 /\ Len(rooms'[c].playerScores) = Len(old)
                 /\ \A i \in 1..Len(old) :
                      rooms'[c].playerScores[i] =
                          IF old[i].name = p
                          THEN [old[i] EXCEPT !.points = lastEvent'.points,
                                              !.correctAnswers = lastEvent'.correctAnswers]
                          ELSE old[i]
                 /\ emitted' = <<Msg("score-update", Subscribers(c),
                                     [scores |-> rooms'[c].playerScores])>>
            ELSE rooms' = rooms /\ emitted' = <<>>]_vars

\* an update-score just wrote the points a player of a two-player room already
\* had when the round started
C16_Witness ==
    /\ lastEvent.name = "update-score"
    /\ lastEvent.code \in DOMAIN rooms
    /\ lastEvent.points > 0
    /\ LET room == rooms[lastEvent.code] IN
       /\ Len(room.players) = 2
       /\ Includes(room.players, lastEvent.playerName)
       /\ ScoreOf(room, lastEvent.playerName).points = lastEvent.points
       /\ ScoreOf(room, lastEvent.playerName).previousPoints = lastEvent.points
    /\ Len(emitted) = 1

\* a message of the given name went to the whole room of code c in this step
ToRoom(c, i, name) ==
    emitted'[i].name = name /\ emitted'[i].to = Subscribers(c)

\* C17: a leave that removes a player and leaves the room non-empty sends the
\* room, in that step, the new roster, the new scores and the new count of
\* players who have not finished.
C17_LeaveBroadcastsAll ==
    [][\A c \in DOMAIN rooms :
         (/\ IsLeaveEvent(lastEvent')
          /\ lastEvent'.code = c
          /\ Includes(rooms[c].players, lastEvent'.playerName)
          /\ Len(rooms[c].players) >= 2)
         => /\ c \in DOMAIN rooms'
            /\ \E i \in 1..Len(emitted') :
                 /\ ToRoom(c, i, "players-updated")
                 /\ emitted'[i].data.players = rooms'[c].players
            /\ \E i \in 1..Len(emitted') :
                 /\ ToRoom(c, i, "score-update")
                 /\ Len(emitted'[i].data.scores) = Len(rooms'[c].playerScores)
            /\ \E i \in 1..Len(emitted') :
                 /\ ToRoom(c, i, "player-finished-updated")
                 /\ emitted'[i].data.remaining = Remaining(rooms'[c])]_vars

\* C18: a join that adds a player to a room whose isRoundActive is true sends
\* the joining connection a join-active-game with the room's currentRound and
\* currentRoundData, and does not send it the lobby join-success.
C18_ActiveRoundJoin ==
    [][\A c \in DOMAIN rooms :
         (/\ lastEvent'.name = "join"
          /\ lastEvent'.code = c
          /\ rooms[c].isRoundActive
          /\ c \in DOMAIN rooms'
          /\ rooms'[c].players = Append(rooms[c].players, lastEvent'.playerName))
         => /\ \E i \in 1..Len(emitted') :
                 /\ emitted'[i].name = "join-active-game"
                 /\ emitted'[i].to = {lastEvent'.sock}
                 /\ emitted'[i].data.currentRound = rooms'[c].currentRound
                 /\ emitted'[i].data.currentRoundData = rooms'[c].currentRoundData
            /\ ~\E i \in 1..Len(emitted') :
                 /\ emitted'[i].name = "join-success"
                 /\ emitted'[i].to = {lastEvent'.sock}
                 /\ DOMAIN emitted'[i].data =
                        {"players", "amountOfPlayersInRoom", "host"}]_vars

\* the room after a reports finished and then b does
BothFinished(room, a, b) == MarkFinished(MarkFinished(room, a), b)

\* C19: a player-finished-round of a player adds the player to finishedPlayers
\* and sends the room the remaining count of the new state; for any two
\* players of the room both orders of their two reports end in the same room,
\* with both names in finishedPlayers and the same remaining count in the last
\* broadcast.
C19_FinishedCommutes ==
    [][\A c \in DOMAIN rooms :
         (/\ lastEvent'.name = "player-finished-round"
          /\ lastEvent'.code = c
          /\ Includes(rooms[c].players, lastEvent'.playerName))
         => LET a == lastEvent'.playerName IN
            /\ c \in DOMAIN rooms'
            /\ rooms'[c] = [rooms[c] EXCEPT !.finishedPlayers = @ \cup {a}]
            /\ rooms'[c] = MarkFinished(rooms[c], a)
            /\ emitted' = <<FinishedMsg(Subscribers(c), Remaining(rooms'[c]),
                                        Cardinality(rooms'[c].finishedPlayers))>>
            /\ \A b \in Range(rooms[c].players) :
                 /\ BothFinished(rooms[c], a, b) = BothFinished(rooms[c], b, a)
                 /\ {a, b} \subseteq BothFinished(rooms[c], a, b).finishedPlayers
                 /\ Remaining(BothFinished(rooms[c], a, b))
                        = Remaining(BothFinished(rooms[c], b, a))]_vars

\* the second of the two players of a room just reported finished
C19_Witness ==
    /\ lastEvent.name = "player-finished-round"
    /\ lastEvent.code \in DOMAIN rooms
    /\ LET room == rooms[lastEvent.code] IN
       /\ Len(room.players) = 2
       /\ room.finishedPlayers = Range(room.players)
    /\ Len(emitted) = 1
    /\ emitted[1].data.remaining = 0
    /\ emitted[1].data.finishedCount = 2

\* what a query for a room code that is not in the registry answers
UnknownRoomAnswer(name, s) ==
    CASE name = "get-total-rounds" -> Msg("total-rounds", {s}, [rounds |-> 5])
      [] name = "get-room-players-scores" ->
             Msg("room-players-scores", {s}, [scores |-> <<>>])
      [] name = "get-current-round" -> Msg("current-round", {s}, <<>>)

\* C20: for a room code that is not in the registry get-total-rounds answers 5,
\* get-room-players-scores an empty list and get-current-round null, each to
\* the sender alone, and the registry stays as it was.
C20_UnknownRoomDefaults ==
    [][(/\ lastEvent'.name \in {"get-total-rounds", "get-room-players-scores",
                                "get-current-round"}
        /\ lastEvent'.code \notin DOMAIN rooms)
       => /\ rooms' = rooms
          /\ emitted' = <<UnknownRoomAnswer(lastEvent'.name, lastEvent'.sock)>>]_vars

\* a get-total-rounds for a code with no room was just answered with 5 while
\* another connection was subscribed to the channel of that code
C20_Witness ==
    /\ lastEvent.name = "get-total-rounds"
    /\ lastEvent.code \notin DOMAIN rooms
    /\ emitted = <<Msg("total-rounds", {lastEvent.sock}, [rounds |-> 5])>>
    /\ \E x \in Connected \ {lastEvent.sock} : lastEvent.code \in channels[x]

\* C21: a create-room for a code with no room, with settings that ask for one
\* player, makes a room whose players are the host alone, with one score
\* record, of the host, with points, previousPoints and correctAnswers 0, in
\* that one step; a create-room for a code with no room always makes the room.
C21_SoloAutoJoin ==
    [][(lastEvent'.name = "create-room" /\ lastEvent'.code \notin DOMAIN rooms)
       => LET c == lastEvent'.code
              host == lastEvent'.playerName
          IN
          /\ c \in DOMAIN rooms'
          /\ rooms'[c].host = host
          /\ rooms'[c].settings.amountOfPlayers = 1 =>
                /\ rooms'[c].players = <<host>>
                /\ Len(rooms'[c].playerScores) = 1
                /\ rooms'[c].playerScores[1].name = host
                /\ rooms'[c].playerScores[1].points = 0
                /\ rooms'[c].playerScores[1].previousPoints = 0
                /\ rooms'[c].playerScores[1].correctAnswers = 0]_vars

\* a connection that never joined just created a room for one player and the
\* room holds its host
C21_Witness ==
    /\ lastEvent.name = "create-room"
    /\ lastEvent.code \in DOMAIN rooms
    /\ emitted # <<>>
    /\ sockName[lastEvent.sock] = NoName
    /\ sockRoom[lastEvent.sock] = NoCode
    /\ rooms[lastEvent.code].maxPlayers = 1
    /\ rooms[lastEvent.code].players = <<lastEvent.playerName>>

\* the connections in session in room c as playerName
SessionsAs(c, playerName) ==
    {x \in Connected : sockRoom[x] = c /\ sockName[x] = playerName}

\* C22: in a room whose players are Alice and Bob, each in session on a
\* connection, the player-finished-round of the second of the two to finish
\* is broadcast with remaining = 0, and a host-continue-round with nextRound 2
\* leaves the room with currentRound = 2 and isRoundActive true and sends a
\* continue-to-next-round with currentRound = 2 and isRoundActive true to both
\* connections.
C22_GamePlayedThrough ==
    [][\A c \in DOMAIN rooms :
         (/\ lastEvent'.code = c
          /\ rooms[c].players = <<"Alice", "Bob">>
          /\ SessionsAs(c, "Alice") # {}
          /\ SessionsAs(c, "Bob") # {})
         => LET both == SessionsAs(c, "Alice") \cup SessionsAs(c, "Bob") IN
            /\ (/\ lastEvent'.name = "player-finished-round"
                /\ lastEvent'.playerName \in {"Alice", "Bob"}
                /\ rooms[c].finishedPlayers = {"Alice", "Bob"} \ {lastEvent'.playerName})
               => /\ rooms'[c].finishedPlayers = {"Alice", "Bob"}
                  /\ Len(emitted') = 1
                  /\ emitted'[1].name = "player-finished-updated"
                  /\ emitted'[1].data.remaining = 0
                  /\ both \subseteq emitted'[1].to
            /\ (lastEvent'.name = "host-continue-round" /\ lastEvent'.nextRound = 2)
               => /\ rooms'[c].currentRound = 2
                  /\ rooms'[c].isRoundActive
                  /\ Len(emitted') = 1
                  /\ emitted'[1].name = "continue-to-next-round"
                  /\ emitted'[1].data.currentRound = 2
                  /\ emitted'[1].data.isRoundActive
                  /\ both \subseteq emitted'[1].to]_vars

\* the game of Alice and Bob, in a room for two, started and with a round
\* handed out, was just continued to round 2 and both connections were told
C22_Witness ==
    /\ lastEvent.name = "host-continue-round"
    /\ lastEvent.code \in DOMAIN rooms
    /\ LET room == rooms[lastEvent.code] IN
       /\ room.maxPlayers = 2
       /\ room.players = <<"Alice", "Bob">>
       /\ room.gameActive
       /\ room.currentRoundData # <<>>
       /\ room.currentRound = 2
       /\ room.isRoundActive
    /\ SessionsAs(lastEvent.code, "Alice") # {}
    /\ SessionsAs(lastEvent.code, "Bob") # {}
    /\ Len(emitted) = 1
    /\ emitted[1].to = Connected
    /\ Cardinality(Connected) = 2

\* C23: in every room whose host is one of its players, hostSocketId is a
\* connected socket in session in this room under the host's name.
C23_HostSocketIsHost ==
    \A c \in DOMAIN rooms :
        Includes(rooms[c].players, rooms[c].host)
        => rooms[c].hostSocketId \in SessionsAs(c, rooms[c].host)

\* C24: every room's maxPlayers is in 1..8.
C24_MaxPlayersInRange ==
    \A c \in DOMAIN rooms : rooms[c].maxPlayers \in 1..8

\* C25: a host-skip-round from a connection whose id is not hostSocketId and
\* whose session name is not the host changes no room and sends nothing.
C25_SkipNeedsHost ==
    [][\A c \in DOMAIN rooms :
         (/\ lastEvent'.name = "host-skip-round"
          /\ lastEvent'.code = c
          /\ rooms[c].hostSocketId # lastEvent'.sock
          /\ rooms[c].host # sockName[lastEvent'.sock])
         => rooms' = rooms /\ emitted' = <<>>]_vars

\* a player of the room who is not its host just sent a host-skip-round while
\* a player had not finished, and nothing happened
C25_Witness ==
    /\ lastEvent.name = "host-skip-round"
    /\ lastEvent.code \in DOMAIN rooms
    /\ emitted = <<>>
    /\ sockRoom[lastEvent.sock] = lastEvent.code
    /\ LET room == rooms[lastEvent.code] IN
       /\ room.hostSocketId # lastEvent.sock
       /\ room.host # sockName[lastEvent.sock]
       /\ Includes(room.players, room.host)
       /\ room.finishedPlayers # Range(room.players)

\* the connections in session in room c
SessionsIn(c) == {x \in Connected : sockRoom[x] = c}

\* C26: a host-skip-round from the connection hostSocketId names, or from a
\* connection whose session name is the host, leaves finishedPlayers equal to
\* the set of the names in players, and sends the room host-skipped-round and
\* then player-finished-updated with remaining = 0 and finishedCount equal to
\* the number of players.
C26_SkipFinishesAll ==
    [][\A c \in DOMAIN rooms :
         (/\ lastEvent'.name = "host-skip-round"
          /\ lastEvent'.code = c
          /\ \/ rooms[c].hostSocketId = lastEvent'.sock
             \/ rooms[c].host = sockName[lastEvent'.sock])
         => /\ c \in DOMAIN rooms'
            /\ rooms'[c].players = rooms[c].players
            /\ rooms'[c].finishedPlayers = Range(rooms[c].players)
            /\ SessionsIn(c) \subseteq Subscribers(c)
            /\ emitted' = <<Msg("host-skipped-round", Subscribers(c), <<>>),
                            Msg("player-finished-updated", Subscribers(c),
                                [remaining |-> 0,
                                 finishedCount |-> Len(rooms[c].players)])>>]_vars

\* the host just skipped a round of a room of two players, both in session
C26_Witness ==
    /\ lastEvent.name = "host-skip-round"
    /\ lastEvent.code \in DOMAIN rooms
    /\ rooms[lastEvent.code].hostSocketId = lastEvent.sock
    /\ Len(rooms[lastEvent.code].players) = 2
    /\ rooms[lastEvent.code].finishedPlayers = Range(rooms[lastEvent.code].players)
    /\ Cardinality(SessionsIn(lastEvent.code)) = 2
    /\ Len(emitted) = 2
    /\ emitted[1].name = "host-skipped-round"
    /\ emitted[2].data.remaining = 0
    /\ emitted[2].data.finishedCount = 2
    /\ emitted[2].to = SessionsIn(lastEvent.code)

\* C27: every player-finished-updated carries, as remaining, the number of the
\* room's players that are not in finishedPlayers and, as finishedCount, the
\* number of the room's players that are in finishedPlayers.
C27_CountsArePlayers ==
    [][\A i \in 1..Len(emitted') :
         (emitted'[i].name = "player-finished-updated" /\ lastEvent'.code \in DOMAIN rooms')
         => LET room == rooms'[lastEvent'.code] IN
            /\ emitted'[i].data.remaining =
                 Cardinality(Range(room.players) \ room.finishedPlayers)
            /\ emitted'[i].data.finishedCount =
                 Cardinality(Range(room.players) \cap room.finishedPlayers)]_vars

\* C28: a host-end-game changes no room and no session, and sends
\* navigate-to-end-game, and nothing else, to the sender and to every
\* connection of the room's channel, which holds every connection in session
\* in the room.
C28_EndGameOnlyNavigates ==
    [][lastEvent'.name = "host-end-game"
       => LET c == lastEvent'.code
              reached == UNION {emitted'[i].to : i \in 1..Len(emitted')}
          IN
          /\ rooms' = rooms
          /\ SessionsUnchanged
          /\ \A i \in 1..Len(emitted') : emitted'[i].name = "navigate-to-end-game"
          /\ reached = Subscribers(c) \cup {lastEvent'.sock}
          /\ SessionsIn(c) \subseteq reached]_vars

\* the host of a started game of two players, both in session, just ended it
C28_Witness ==
    /\ lastEvent.name = "host-end-game"
    /\ lastEvent.code \in DOMAIN rooms
    /\ rooms[lastEvent.code].gameActive
    /\ rooms[lastEvent.code].hostSocketId = lastEvent.sock
    /\ Len(rooms[lastEvent.code].players) = 2
    /\ Cardinality(SessionsIn(lastEvent.code)) = 2
    /\ UNION {emitted[i].to : i \in 1..Len(emitted)} = SessionsIn(lastEvent.code)

ReadOnlyQueries ==
    {"get-current-round", "get-total-rounds", "get-room-players-scores"}

\* C29: get-current-round, get-total-rounds and get-room-players-scores change
\* no room and no session, and such a query that follows the same query, from
\* the same connection for the same code, answers with the payload the first
\* answered with.
C29_QueriesRepeatable ==
    [][lastEvent'.name \in ReadOnlyQueries
       => /\ rooms' = rooms
          /\ SessionsUnchanged
          /\ (/\ lastEvent.name = lastEvent'.name
              /\ lastEvent.code = lastEvent'.code
              /\ lastEvent.sock = lastEvent'.sock)
             => /\ Len(emitted') = Len(emitted)
                /\ \A i \in 1..Len(emitted) : emitted'[i].data = emitted[i].data]_vars

\* C30: a create-room for a code that has a room changes no room and sends
\* nothing.
C30_CreateExistingIsNoOp ==
    [][(lastEvent'.name = "create-room" /\ lastEvent'.code \in DOMAIN rooms)
       => rooms' = rooms /\ emitted' = <<>>]_vars

\* a connection that is not the host's just sent create-room, with other
\* settings, for the code of a room that holds players, and got no answer
C30_Witness ==
    /\ lastEvent.name = "create-room"
    /\ lastEvent.code \in DOMAIN rooms
    /\ emitted = <<>>
    /\ rooms[lastEvent.code].hostSocketId # lastEvent.sock
    /\ Len(rooms[lastEvent.code].players) = 2
    /\ Len(rooms[lastEvent.code].playerScores) = 2
    /\ rooms[lastEvent.code].maxPlayers = 2

\* C31: in every room isRoundActive and isIntermission are never both true,
\* and in a room with gameActive true exactly one of the two is true.
C31_OnePhaseFlag ==
    \A c \in DOMAIN rooms :
        /\ ~(rooms[c].isRoundActive /\ rooms[c].isIntermission)
        /\ rooms[c].gameActive => (rooms[c].isRoundActive # rooms[c].isIntermission)

\* a game was just started again in a room where a round had been handed out:
\* the room waits for its host, its round no longer active
C31_Witness ==
    /\ lastEvent.name = "start-game"
    /\ lastEvent.code \in DOMAIN rooms
    /\ rooms[lastEvent.code].currentRoundData # <<>>
    /\ rooms[lastEvent.code].gameActive
    /\ rooms[lastEvent.code].isIntermission
    /\ ~rooms[lastEvent.code].isRoundActive

\* C32: every name in a room's players is the name of the session of a
\* connection in session in that room.
C32_PlayersHaveSessions ==
    \A c \in DOMAIN rooms :
        \A i \in 1..Len(rooms[c].players) :
            \E x \in Connected :
                /\ sockRoom[x] = c
                /\ sockName[x] = rooms[c].players[i]
                /\ x \in DOMAIN playerRooms
                /\ playerRooms[x] = c

\* C33: a message of a step reaches, besides the connection that sent the
\* event, only connections that are in session in the room of the event after
\* the step.
C33_BroadcastsReachSessionsOnly ==
    [][\A i \in 1..Len(emitted') :
         \A x \in emitted'[i].to \ {lastEvent'.sock} :
            sockRoom'[x] = lastEvent'.code]_vars

\* C34: in every room the names of the score records are the names in players,
\* one record for each player.
C34_ScoresArePlayers ==
    \A c \in DOMAIN rooms :
        /\ ScoreKeys(rooms[c].playerScores) = Range(rooms[c].players)
        /\ Len(rooms[c].playerScores) = Len(rooms[c].players)

\* a player just left a room of two: the one who stays has the one record,
\* with the point an update-score gave
C34_Witness ==
    /\ IsLeaveEvent(lastEvent)
    /\ lastEvent.playerName = "Alice"
    /\ lastEvent.code \in DOMAIN rooms
    /\ rooms[lastEvent.code].players = <<"Bob">>
    /\ Len(rooms[lastEvent.code].playerScores) = 1
    /\ rooms[lastEvent.code].playerScores[1].name = "Bob"
    /\ rooms[lastEvent.code].playerScores[1].points = 1

\* C35: a room with isRoundActive true has gameActive true.
C35_ActiveRoundInGame ==
    \A c \in DOMAIN rooms : rooms[c].isRoundActive => rooms[c].gameActive

\* C36: a room with isRoundActive true has a roundStartTime that is not null.
C36_ActiveRoundHasStartTime ==
    \A c \in DOMAIN rooms : rooms[c].isRoundActive => rooms[c].roundStartTime # NoTime

\* a host-start-round just made a round active and sent the room the start
\* time the room holds
C36_Witness ==
    /\ lastEvent.name = "host-start-round"
    /\ lastEvent.code \in DOMAIN rooms
    /\ rooms[lastEvent.code].isRoundActive
    /\ rooms[lastEvent.code].roundStartTime \in Times
    /\ Len(emitted) = 2
    /\ emitted[1].name = "round-start"
    /\ emitted[1].data.startTime = rooms[lastEvent.code].roundStartTime

\* every player of the room is in finishedPlayers
AllFinished(room) == Range(room.players) \subseteq room.finishedPlayers

\* C37: a step that leaves a room with a round in progress and with players,
\* all of them in finishedPlayers, when before the step one of its players was
\* not, sends the room a player-finished-updated with remaining = 0.
C37_QuorumReachesZero ==
    [][\A c \in DOMAIN rooms \cap DOMAIN rooms' :
         (/\ rooms[c].isRoundActive
          /\ rooms'[c].isRoundActive
          /\ rooms'[c].players # <<>>
          /\ ~AllFinished(rooms[c])
          /\ AllFinished(rooms'[c]))
         => \E i \in 1..Len(emitted') :
                /\ emitted'[i].name = "player-finished-updated"
                /\ emitted'[i].data.remaining = 0
                /\ emitted'[i].to = Subscribers(c)]_vars

\* C38: the first join of the connection that created a room for several
\* players, under the host name, is accepted, whatever the other connections
\* joined and left since.
C38_CreatorJoinSucceeds ==
    [][(lastEvent'.name = "join" /\ lastEvent'.sock = Creator)
       => /\ JoinAccepted(emitted')
          /\ lastEvent'.code \in DOMAIN rooms'
          /\ Includes(rooms'[lastEvent'.code].players, lastEvent'.playerName)]_vars

\* C39: a leave of a player who is not the host sends no hostChanged and
\* leaves host and hostSocketId of the room, if it stays, as they were; a
\* hostChanged is sent only by a leave of the player who is the host.
C39_OnlyHostLeaveChangesHost ==
    [][/\ \A c \in DOMAIN rooms :
            (/\ IsLeaveEvent(lastEvent')
             /\ lastEvent'.code = c
             /\ lastEvent'.playerName # rooms[c].host)
            => /\ HostChangedAt(emitted') = {}
               /\ c \in DOMAIN rooms' =>
                     /\ rooms'[c].host = rooms[c].host
                     /\ rooms'[c].hostSocketId = rooms[c].hostSocketId
       /\ HostChangedAt(emitted') # {} =>
            /\ IsLeaveEvent(lastEvent')
            /\ lastEvent'.code \in DOMAIN rooms
            /\ lastEvent'.playerName = rooms[lastEvent'.code].host]_vars

\* a player who is not the host just left a room where the host stays, and
\* the room heard of the leave and of no new host
C39_Witness ==
    /\ IsLeaveEvent(lastEvent)
    /\ lastEvent.playerName # NoName
    /\ lastEvent.code \in DOMAIN rooms
    /\ rooms[lastEvent.code].host # lastEvent.playerName
    /\ Includes(rooms[lastEvent.code].players, rooms[lastEvent.code].host)
    /\ rooms[lastEvent.code].hostSocketId \in SessionsAs(lastEvent.code, rooms[lastEvent.code].host)
    /\ \E i \in 1..Len(emitted) :
         /\ emitted[i].name = "playerLeft"
         /\ emitted[i].data.playerName = lastEvent.playerName
    /\ HostChangedAt(emitted) = {}

\* C40: a stored currentRoundData stays with the round number it was stored
\* for: a step other than a host-start-round that leaves the stored payload in
\* place leaves currentRound as it was.
C40_RoundDataOfCurrentRound ==
    [][\A c \in DOMAIN rooms \cap DOMAIN rooms' :
         (/\ lastEvent'.name # "host-start-round"
          /\ rooms[c].currentRoundData # <<>>
          /\ rooms'[c].currentRoundData = rooms[c].currentRoundData)
         => rooms'[c].currentRound = rooms[c].currentRound]_vars

====
